---- MODULE Spec2Model ----
(***************************************************************************)
(* TODOHandler of go-stations (handler/todo.go, model/todo.go).            *)
(*                                                                         *)
(* One HTTP request at a time walks through ServeHTTP: dispatch on the     *)
(* method, decode the JSON body, validate, call the service, map the       *)
(* result to a status, encode the response.  Read and Delete are the       *)
(* handler's exported methods and are called directly.                     *)
(*                                                                         *)
(* The service package (service.TODOService) and model.ErrNotFound are     *)
(* not part of the sources at hand; they are modelled from the service     *)
(* contract of the specification (section 6).                              *)
(***************************************************************************)
EXTENDS Integers, Sequences, FiniteSets, TLC

VARIABLES
    todos,      \* service: the persisted TODO rows
    nextID,     \* service: the next ID storage assigns
    clock,      \* service: the storage timestamp
    pc,         \* position of the request inside the handler
    method,     \* r.Method
    body,       \* r.Body, a JSON text
    req,        \* the decoded request struct (req in handleCreate / handleUpdate)
    w,          \* the http.ResponseWriter
    logs,       \* lines written with log.Printf
    svcCalls,   \* the calls made on h.svc for the current request / call
    svcRet,     \* what the last service call returned
    res,        \* (res, err) of h.Create / h.Update / h.Read / h.Delete
    encErr,     \* whether json.NewEncoder(w).Encode(res) returned an error
    apiReq      \* the request struct handed to Read / Delete

vars == <<todos, nextID, clock, pc, method, body, req, w, logs, svcCalls,
          svcRet, res, encErr, apiReq>>

-----------------------------------------------------------------------------
(* Bounds *)

MaxTodos == 2
MaxClock == 3

-----------------------------------------------------------------------------
(* net/http status codes used by the handler *)

StatusOK == 200
StatusBadRequest == 400
StatusNotFound == 404
StatusMethodNotAllowed == 405
StatusInternalServerError == 500

Methods == {"GET", "POST", "PUT", "DELETE"}

-----------------------------------------------------------------------------
(* model/todo.go: the data-transfer structs, with Go's zero values *)

TODO(id, subject, description, createdAt, updatedAt) ==
    [ID |-> id, Subject |-> subject, Description |-> description,
     CreatedAt |-> createdAt, UpdatedAt |-> updatedAt]

ZeroTODO == TODO(0, "", "", 0, 0)

CreateTODORequest(subject, description) ==
    [ID |-> 0, Subject |-> subject, Description |-> description]

UpdateTODORequest(id, subject, description) ==
    [ID |-> id, Subject |-> subject, Description |-> description]

ZeroRequest == [ID |-> 0, Subject |-> "", Description |-> ""]

ReadTODORequest(prevID, size) == [PrevID |-> prevID, Size |-> size, IDs |-> {}]

DeleteTODORequest(ids) == [PrevID |-> 0, Size |-> 0, IDs |-> ids]

ZeroAPIRequest == [PrevID |-> 0, Size |-> 0, IDs |-> {}]

\* A *Response pointer together with the error returned next to it.
\* isNil: the pointer is nil.  one: the TODO of Create/Update responses.
\* many: the TODOs of a ReadTODOResponse.
Response(isNil, one, many, err) ==
    [isNil |-> isNil, TODO |-> one, TODOs |-> many, err |-> err]

-----------------------------------------------------------------------------
(* errors *)

NilErr == [type |-> "nil", msg |-> ""]

ErrNotFound == [type |-> "*model.ErrNotFound", msg |-> "not found"]

ErrLocked == [type |-> "*errors.errorString", msg |-> "database is locked"]

ErrFull == [type |-> "*errors.errorString", msg |-> "database or disk is full"]

\* What a service call can fail with for reasons of its own (storage, context).
Faults == {NilErr, ErrLocked, ErrNotFound}

-----------------------------------------------------------------------------
(* The service collaborator: CreateTODO, ReadTODO, UpdateTODO, DeleteTODO. *)
(* Each returns its result and the storage state it leaves.                *)

IDsOf(rows) == {t.ID : t \in rows}

Row(id) == CHOOSE t \in todos : t.ID = id

SvcResult(todo, many, err, rows, nid, clk) ==
    [todo |-> todo, todos |-> many, err |-> err,
     rows |-> rows, nextID |-> nid, clock |-> clk]

CreateTODO(subject, description, fault) ==
    IF fault # NilErr
    THEN SvcResult(ZeroTODO, <<>>, fault, todos, nextID, clock)
    ELSE IF nextID > MaxTodos
    THEN SvcResult(ZeroTODO, <<>>, ErrFull, todos, nextID, clock)
    ELSE LET t == TODO(nextID, subject, description, clock, clock)
         IN  SvcResult(t, <<>>, NilErr, todos \cup {t}, nextID + 1, clock + 1)

UpdateTODO(id, subject, description, fault) ==
    IF fault # NilErr
    THEN SvcResult(ZeroTODO, <<>>, fault, todos, nextID, clock)
    ELSE IF id \notin IDsOf(todos)
    THEN SvcResult(ZeroTODO, <<>>, ErrNotFound, todos, nextID, clock)
    ELSE LET old == Row(id)
             t == TODO(id, subject, description, old.CreatedAt, clock)
         IN  SvcResult(t, <<>>, NilErr, (todos \ {old}) \cup {t}, nextID, clock + 1)

\* The rows with ID below the cursor (all rows for cursor 0), newest first.
RECURSIVE Descending(_)
Descending(rows) ==
    IF rows = {} THEN <<>>
    ELSE LET top == CHOOSE t \in rows : \A u \in rows : u.ID <= t.ID
         IN  <<top>> \o Descending(rows \ {top})

Take(s, n) == SubSeq(s, 1, IF n < Len(s) THEN n ELSE Len(s))

ReadTODO(prevID, size, fault) ==
    IF fault # NilErr
    THEN SvcResult(ZeroTODO, <<>>, fault, todos, nextID, clock)
    ELSE LET page == {t \in todos : prevID = 0 \/ t.ID < prevID}
         IN  SvcResult(ZeroTODO, Take(Descending(page), size), NilErr,
                       todos, nextID, clock)

DeleteTODO(ids, fault) ==
    IF fault # NilErr
    THEN SvcResult(ZeroTODO, <<>>, fault, todos, nextID, clock)
    ELSE IF ids = {}
    THEN SvcResult(ZeroTODO, <<>>, NilErr, todos, nextID, clock)
    ELSE IF ids \cap IDsOf(todos) = {}
    THEN SvcResult(ZeroTODO, <<>>, ErrNotFound, todos, nextID, clock)
    ELSE SvcResult(ZeroTODO, <<>>, NilErr,
                   {t \in todos : t.ID \notin ids}, nextID, clock)

\* The record of one call on h.svc.
SvcCall(op, id, subject, description, prevID, size, ids) ==
    [op |-> op, ID |-> id, Subject |-> subject, Description |-> description,
     PrevID |-> prevID, Size |-> size, IDs |-> ids]

ZeroSvcRet == [todo |-> ZeroTODO, todos |-> <<>>, err |-> NilErr]

SvcRetOf(r) == [todo |-> r.todo, todos |-> r.todos, err |-> r.err]

-----------------------------------------------------------------------------
(* The request body: a JSON text.  wf = FALSE is a text that is not JSON.  *)
(* A well-formed body is an object whose members id, subject and           *)
(* description are each absent, a number or a string.                      *)

Absent == [t |-> "absent", n |-> 0, s |-> ""]

Num(n) == [t |-> "number", n |-> n, s |-> ""]

Str(s) == [t |-> "string", n |-> 0, s |-> s]

IdTokens == {Absent, Str("x")} \cup {Num(n) : n \in 0..(MaxTodos + 1)}

SubjectTokens == {Absent, Str(""), Str("a"), Num(1)}

DescriptionTokens == {Absent, Str("d")}

Garbage == [wf |-> FALSE, id |-> Absent, subject |-> Absent, description |-> Absent]

Bodies ==
    {Garbage} \cup
    [wf : {TRUE}, id : IdTokens, subject : SubjectTokens,
     description : DescriptionTokens]

\* encoding/json into an int64 field: absent leaves the zero value, a number
\* is stored, a string is an UnmarshalTypeError.
IntField(tok) ==
    IF tok.t = "absent" THEN [err |-> FALSE, v |-> 0]
    ELSE IF tok.t = "number" THEN [err |-> FALSE, v |-> tok.n]
    ELSE [err |-> TRUE, v |-> 0]

\* encoding/json into a string field: absent leaves "", a string is stored,
\* a number is an UnmarshalTypeError.
StringField(tok) ==
    IF tok.t = "absent" THEN [err |-> FALSE, v |-> ""]
    ELSE IF tok.t = "string" THEN [err |-> FALSE, v |-> tok.s]
    ELSE [err |-> TRUE, v |-> ""]

\* json.NewDecoder(r.Body).Decode(&req) for CreateTODORequest: the struct has
\* no id member, so an id in the body is skipped whatever its type.
DecodeCreate(b) ==
    LET s == StringField(b.subject)
        d == StringField(b.description)
    IN  [err |-> ~b.wf \/ s.err \/ d.err,
         req |-> CreateTODORequest(s.v, d.v)]

\* json.NewDecoder(r.Body).Decode(&req) for UpdateTODORequest.
DecodeUpdate(b) ==
    LET i == IntField(b.id)
        s == StringField(b.subject)
        d == StringField(b.description)
    IN  [err |-> ~b.wf \/ i.err \/ s.err \/ d.err,
         req |-> UpdateTODORequest(i.v, s.v, d.v)]

-----------------------------------------------------------------------------
(* json.NewEncoder(w).Encode(res) for the Create / Update responses:       *)
(* {"todo":{"id":..,"subject":..,"description":..,"created_at":..,         *)
(* "updated_at":..}} with the timestamps in RFC 3339.                      *)

RFC3339(t) == [layout |-> "RFC3339Nano", instant |-> t]

EncodeTODO(t) ==
    [id |-> t.ID, subject |-> t.Subject, description |-> t.Description,
     created_at |-> RFC3339(t.CreatedAt), updated_at |-> RFC3339(t.UpdatedAt)]

\* One Write on the response body: a text line or a JSON document.
TextChunk(msg) == [kind |-> "text", text |-> msg, todo |-> EncodeTODO(ZeroTODO)]

JSONChunk(r) == [kind |-> "json", text |-> "", todo |-> EncodeTODO(r.TODO)]

-----------------------------------------------------------------------------
(* http.ResponseWriter.  header is the header map the handler can still    *)
(* change; status and contentType are what goes on the wire, fixed by the  *)
(* first WriteHeader.                                                      *)

NewResponseWriter ==
    [wroteHeader |-> FALSE, status |-> 0, header |-> "", contentType |-> "",
     body |-> <<>>]

HeaderSet(rw, ct) == [rw EXCEPT !.header = ct]

\* A second WriteHeader is superfluous and changes nothing.
WriteHeader(rw, code) ==
    IF rw.wroteHeader THEN rw
    ELSE [rw EXCEPT !.wroteHeader = TRUE, !.status = code,
                    !.contentType = rw.header]

Write(rw, chunk) ==
    LET r == WriteHeader(rw, StatusOK)
    IN  [r EXCEPT !.body = Append(@, chunk)]

\* http.Error(w, msg, code)
HttpError(rw, msg, code) ==
    Write(WriteHeader(HeaderSet(rw, "text/plain; charset=utf-8"), code),
          TextChunk(msg))

-----------------------------------------------------------------------------
(* handler/todo.go *)

\* Variant of Route: the default case falls into the PUT branch.
RouteDefaultUpdate(m) ==
    IF m = "POST" THEN "create" ELSE "update"

\* ServeHTTP: switch r.Method
Route(m) ==
    IF m = "POST" THEN "create"
    ELSE IF m = "PUT" THEN "update"
    ELSE "reject"

\* Variant of ValidCreate: the Subject check is missing.
ValidCreateNoCheck(r) == TRUE

\* handleCreate: if req.Subject == "" { 400 }
ValidCreate(r) == ~(r.Subject = "")

\* Variant of ValidUpdate: && in place of ||.
ValidUpdateAnd(r) == ~(r.ID = 0 /\ r.Subject = "")

\* handleUpdate: if req.ID == 0 || req.Subject == "" { 400 }
ValidUpdate(r) == ~(r.ID = 0 \/ r.Subject = "")

\* Variant of CreateArgs: req.Subject passed for both arguments.
CreateArgsSubjectTwice(r) ==
    SvcCall("CreateTODO", 0, r.Subject, r.Subject, 0, 0, {})

\* The arguments Create hands to h.svc.CreateTODO.
CreateArgs(r) == SvcCall("CreateTODO", 0, r.Subject, r.Description, 0, 0, {})

\* The arguments Update hands to h.svc.UpdateTODO.
UpdateArgs(r) == SvcCall("UpdateTODO", r.ID, r.Subject, r.Description, 0, 0, {})

\* The arguments Read hands to h.svc.ReadTODO: (ctx, 0, 0).
ReadArgs(r) == SvcCall("ReadTODO", 0, "", "", 0, 0, {})

\* The arguments Delete hands to h.svc.DeleteTODO: (ctx, nil).
DeleteArgs(r) == SvcCall("DeleteTODO", 0, "", "", 0, 0, {})

\* Create / Update: return nil, err on an error, else the response around *todo.
WrapTODO(ret) ==
    IF ret.err # NilErr
    THEN Response(TRUE, ZeroTODO, <<>>, ret.err)
    ELSE Response(FALSE, ret.todo, <<>>, NilErr)

\* Read: the service's result is dropped; &model.ReadTODOResponse{}, nil.
WrapRead(ret) == Response(FALSE, ZeroTODO, <<>>, NilErr)

\* Delete: the service's error is dropped; &model.DeleteTODOResponse{}, nil.
WrapDelete(ret) == Response(FALSE, ZeroTODO, <<>>, NilErr)

\* Variant of IsErrNotFound: the assertion names the value type.
IsErrNotFoundByValue(err) == err.type = "model.ErrNotFound"

\* handleUpdate: _, ok := err.(*model.ErrNotFound)
IsErrNotFound(err) == err.type = "*model.ErrNotFound"

\* Variant of DecodeFailure: the wrong status constant.
DecodeFailureInternal(rw) ==
    HttpError(rw, "Invalid JSON", StatusInternalServerError)

\* handleCreate / handleUpdate, err != nil after Decode
DecodeFailure(rw) == HttpError(rw, "Invalid JSON", StatusBadRequest)

\* Variant of CreateFailure: http.Error(w, err.Error(), 500).
CreateFailureLeak(rw, err) ==
    HttpError(rw, err.msg, StatusInternalServerError)

\* handleCreate, err != nil after h.Create
CreateFailure(rw, err) ==
    HttpError(rw, "Failed to create TODO", StatusInternalServerError)

\* handleUpdate, err != nil after h.Update
UpdateFailure(rw, err) ==
    IF IsErrNotFound(err)
    THEN HttpError(rw, "TODO not found", StatusNotFound)
    ELSE HttpError(rw, "Failed to update TODO", StatusInternalServerError)

\* The tail of handleCreate / handleUpdate: Content-Type, WriteHeader(200),
\* Encode, and http.Error(.., 500) when Encode returned an error.  A failing
\* Encode has put nothing in the body.
WriteJSON(rw, r, failed, msg) ==
    LET hdr == WriteHeader(HeaderSet(rw, "application/json"), StatusOK)
    IN  IF failed
        THEN HttpError(hdr, msg, StatusInternalServerError)
        ELSE Write(hdr, JSONChunk(r))

ZeroResponse == Response(TRUE, ZeroTODO, <<>>, NilErr)

-----------------------------------------------------------------------------
(* The state machine *)

Init ==
    /\ todos = {}
    /\ nextID = 1
    /\ clock = 0
    /\ pc = "idle"
    /\ method = ""
    /\ body = Garbage
    /\ req = ZeroRequest
    /\ w = NewResponseWriter
    /\ logs = <<>>
    /\ svcCalls = <<>>
    /\ svcRet = ZeroSvcRet
    /\ res = ZeroResponse
    /\ encErr = FALSE
    /\ apiReq = ZeroAPIRequest

Resting == pc \in {"idle", "done", "read_returned", "delete_returned"}

Storage(r) ==
    /\ todos' = r.rows
    /\ nextID' = r.nextID
    /\ clock' = r.clock

\* net/http hands a request and a fresh ResponseWriter to ServeHTTP.
Receive(m, b) ==
    /\ Resting
    /\ clock < MaxClock
    /\ pc' = "serve"
    /\ method' = m
    /\ body' = b
    /\ req' = ZeroRequest
    /\ w' = NewResponseWriter
    /\ logs' = <<>>
    /\ svcCalls' = <<>>
    /\ svcRet' = ZeroSvcRet
    /\ res' = ZeroResponse
    /\ encErr' = FALSE
    /\ apiReq' = ZeroAPIRequest
    /\ UNCHANGED <<todos, nextID, clock>>

ServeHTTP ==
    /\ pc = "serve"
    /\ IF Route(method) = "create"
       THEN pc' = "hc_decode" /\ w' = w
       ELSE IF Route(method) = "update"
       THEN pc' = "hu_decode" /\ w' = w
       ELSE /\ w' = HttpError(w, "Method Not Allowed", StatusMethodNotAllowed)
            /\ pc' = "done"
    /\ UNCHANGED <<todos, nextID, clock, method, body, req, logs, svcCalls,
                   svcRet, res, encErr, apiReq>>

HandleCreateDecode ==
    /\ pc = "hc_decode"
    /\ LET d == DecodeCreate(body)
       IN  IF d.err
           THEN /\ logs' = Append(logs, "Error decoding CreateTODORequest")
                /\ w' = DecodeFailure(w)
                /\ pc' = "done"
                /\ req' = req
           ELSE /\ req' = d.req
                /\ pc' = "hc_validate"
                /\ UNCHANGED <<w, logs>>
    /\ UNCHANGED <<todos, nextID, clock, method, body, svcCalls, svcRet, res,
                   encErr, apiReq>>

HandleCreateValidate ==
    /\ pc = "hc_validate"
    /\ IF ValidCreate(req)
       THEN pc' = "hc_create" /\ w' = w
       ELSE /\ w' = HttpError(w, "Subject is required", StatusBadRequest)
            /\ pc' = "done"
    /\ UNCHANGED <<todos, nextID, clock, method, body, req, logs, svcCalls,
                   svcRet, res, encErr, apiReq>>

\* res, err := h.Create(ctx, &req) and the err != nil branch
HandleCreateCall ==
    /\ pc = "hc_create"
    /\ \E fault \in Faults :
         LET a == CreateArgs(req)
             r == CreateTODO(a.Subject, a.Description, fault)
             out == WrapTODO(r)
         IN  /\ svcCalls' = Append(svcCalls, a)
             /\ svcRet' = SvcRetOf(r)
             /\ Storage(r)
             /\ res' = out
             /\ IF out.err # NilErr
                THEN w' = CreateFailure(w, out.err) /\ pc' = "done"
                ELSE w' = w /\ pc' = "hc_encode"
    /\ UNCHANGED <<method, body, req, logs, encErr, apiReq>>

HandleCreateEncode ==
    /\ pc = "hc_encode"
    /\ \E failed \in BOOLEAN :
         /\ encErr' = failed
         /\ w' = WriteJSON(w, res, failed, "Failed to encode JSON")
    /\ pc' = "done"
    /\ UNCHANGED <<todos, nextID, clock, method, body, req, logs, svcCalls,
                   svcRet, res, apiReq>>

HandleUpdateDecode ==
    /\ pc = "hu_decode"
    /\ LET d == DecodeUpdate(body)
       IN  IF d.err
           THEN /\ logs' = Append(logs, "Error decoding UpdateTODORequest")
                /\ w' = DecodeFailure(w)
                /\ pc' = "done"
                /\ req' = req
           ELSE /\ req' = d.req
                /\ pc' = "hu_validate"
                /\ UNCHANGED <<w, logs>>
    /\ UNCHANGED <<todos, nextID, clock, method, body, svcCalls, svcRet, res,
                   encErr, apiReq>>

HandleUpdateValidate ==
    /\ pc = "hu_validate"
    /\ IF ValidUpdate(req)
       THEN pc' = "hu_update" /\ w' = w
       ELSE /\ w' = HttpError(w, "Invalid ID or Subject", StatusBadRequest)
            /\ pc' = "done"
    /\ UNCHANGED <<todos, nextID, clock, method, body, req, logs, svcCalls,
                   svcRet, res, encErr, apiReq>>

\* res, err := h.Update(ctx, &req) and the err != nil branch
HandleUpdateCall ==
    /\ pc = "hu_update"
    /\ \E fault \in Faults :
         LET a == UpdateArgs(req)
             r == UpdateTODO(a.ID, a.Subject, a.Description, fault)
             out == WrapTODO(r)
         IN  /\ svcCalls' = Append(svcCalls, a)
             /\ svcRet' = SvcRetOf(r)
             /\ Storage(r)
             /\ res' = out
             /\ IF out.err # NilErr
                THEN /\ w' = UpdateFailure(w, out.err)
                     /\ logs' = IF IsErrNotFound(out.err) THEN logs
                                ELSE Append(logs, "Error updating TODO")
                     /\ pc' = "done"
                ELSE w' = w /\ logs' = logs /\ pc' = "hu_encode"
    /\ UNCHANGED <<method, body, req, encErr, apiReq>>

HandleUpdateEncode ==
    /\ pc = "hu_encode"
    /\ \E failed \in BOOLEAN :
         /\ encErr' = failed
         /\ w' = WriteJSON(w, res, failed, "Faild to encode JSON")
    /\ pc' = "done"
    /\ UNCHANGED <<todos, nextID, clock, method, body, req, logs, svcCalls,
                   svcRet, res, apiReq>>

\* A direct call of h.Read(ctx, &ReadTODORequest{PrevID, Size}).
Read(prevID, size) ==
    /\ Resting
    /\ \E fault \in Faults :
         LET r0 == ReadTODORequest(prevID, size)
             a == ReadArgs(r0)
             r == ReadTODO(a.PrevID, a.Size, fault)
         IN  /\ apiReq' = r0
             /\ svcCalls' = <<a>>
             /\ svcRet' = SvcRetOf(r)
             /\ Storage(r)
             /\ res' = WrapRead(r)
    /\ pc' = "read_returned"
    /\ method' = ""
    /\ body' = Garbage
    /\ req' = ZeroRequest
    /\ w' = NewResponseWriter
    /\ logs' = <<>>
    /\ encErr' = FALSE

\* A direct call of h.Delete(ctx, &DeleteTODORequest{IDs}).
Delete(ids) ==
    /\ Resting
    /\ \E fault \in Faults :
         LET r0 == DeleteTODORequest(ids)
             a == DeleteArgs(r0)
             r == DeleteTODO(a.IDs, fault)
         IN  /\ apiReq' = r0
             /\ svcCalls' = <<a>>
             /\ svcRet' = SvcRetOf(r)
             /\ Storage(r)
             /\ res' = WrapDelete(r)
    /\ pc' = "delete_returned"
    /\ method' = ""
    /\ body' = Garbage
    /\ req' = ZeroRequest
    /\ w' = NewResponseWriter
    /\ logs' = <<>>
    /\ encErr' = FALSE

HandlerStep ==
    \/ ServeHTTP
    \/ HandleCreateDecode
    \/ HandleCreateValidate
    \/ HandleCreateCall
    \/ HandleCreateEncode
    \/ HandleUpdateDecode
    \/ HandleUpdateValidate
    \/ HandleUpdateCall
    \/ HandleUpdateEncode

Next ==
    \/ \E m \in Methods, b \in Bodies : Receive(m, b)
    \/ HandlerStep
    \/ \E prevID \in 0..MaxTodos, size \in 0..MaxTodos : Read(prevID, size)
    \/ \E ids \in SUBSET (1..MaxTodos) : Delete(ids)

Spec == Init /\ [][Next]_vars

\* The goroutine serving a request keeps running until ServeHTTP returns.
FairSpec == Spec /\ WF_vars(HandlerStep)

-----------------------------------------------------------------------------
(* Properties *)

Served == pc = "done"

Called == svcCalls # <<>>

\* C1: a request whose method is neither POST nor PUT never reaches a decode,
\* validate or service step, makes no service call, and ends with status 405
\* and nothing else, whatever its body.
C1_OtherMethods405 ==
    (method # "" /\ method \notin {"POST", "PUT"}) =>
        /\ pc \in {"serve", "done"}
        /\ svcCalls = <<>>
        /\ req = ZeroRequest
        /\ Served => /\ w.status = StatusMethodNotAllowed
                     /\ w.body = <<TextChunk("Method Not Allowed")>>

C1_Witness ==
    /\ Served
    /\ method = "DELETE"
    /\ body.wf /\ body.id = Num(1) /\ body.subject = Str("a")
    /\ w.status = StatusMethodNotAllowed

\* C2: a POST whose decoded Subject is empty, and a PUT whose decoded ID is
\* zero or whose decoded Subject is empty, is answered 400 and makes no
\* service call.
C2_InvalidRejected ==
    LET c == DecodeCreate(body)
        u == DecodeUpdate(body)
        invalid ==
            \/ method = "POST" /\ ~c.err /\ c.req.Subject = ""
            \/ method = "PUT" /\ ~u.err /\ (u.req.ID = 0 \/ u.req.Subject = "")
    IN  invalid =>
            /\ svcCalls = <<>>
            /\ Served => w.status = StatusBadRequest

C2_Witness ==
    /\ Served
    /\ method = "PUT"
    /\ body.wf /\ body.id = Num(0) /\ body.subject = Str("a")
    /\ req.ID = 0 /\ req.Subject = "a"
    /\ w.status = StatusBadRequest
    /\ svcCalls = <<>>

\* C3: a POST or PUT whose body fails JSON decoding is answered 400, leaves
\* one decode diagnostic in the log, and makes no service call.
C3_DecodeFailure400 ==
    LET failing ==
            \/ method = "POST" /\ DecodeCreate(body).err
            \/ method = "PUT" /\ DecodeUpdate(body).err
    IN  failing =>
            /\ svcCalls = <<>>
            /\ Served =>
                 /\ w.status = StatusBadRequest
                 /\ logs = <<IF method = "POST"
                             THEN "Error decoding CreateTODORequest"
                             ELSE "Error decoding UpdateTODORequest">>

C3_Witness ==
    /\ Served
    /\ method = "PUT"
    /\ body.wf /\ body.id = Str("x") /\ body.subject = Str("a")
    /\ w.status = StatusBadRequest
    /\ Len(logs) = 1

\* C4: a PUT that passed decoding and validation and whose UpdateTODO call
\* signalled not-found is answered 404.
C4_NotFound404 ==
    (Served /\ method = "PUT" /\ Called
        /\ svcRet.err.type = "*model.ErrNotFound") =>
            w.status = StatusNotFound

C4_Witness ==
    /\ Served
    /\ method = "PUT"
    /\ todos # {}
    /\ req.ID \notin IDsOf(todos)
    /\ Called
    /\ svcRet.err = ErrNotFound
    /\ w.status = StatusNotFound

\* C5: a valid POST whose CreateTODO call returned any error, and a valid PUT
\* whose UpdateTODO call returned an error other than not-found, is answered
\* 500 with a body that is the handler's fixed message for that method.
C5_ServiceFailure500 ==
    LET failed ==
            \/ method = "POST" /\ Called /\ svcRet.err # NilErr
            \/ method = "PUT" /\ Called /\ svcRet.err # NilErr
                 /\ svcRet.err.type # "*model.ErrNotFound"
    IN  (Served /\ failed) =>
            /\ w.status = StatusInternalServerError
            /\ w.body = <<TextChunk(IF method = "POST"
                                    THEN "Failed to create TODO"
                                    ELSE "Failed to update TODO")>>
            /\ \A i \in 1..Len(w.body) : w.body[i].text # svcRet.err.msg

C5_Witness ==
    /\ Served
    /\ method = "POST"
    /\ Called
    /\ svcRet.err = ErrNotFound
    /\ w.status = StatusInternalServerError

\* C6: when the service call succeeded and encoding the response failed, the
\* status of the response is 500.
C6_EncodeFailure500 ==
    (Served /\ Called /\ svcRet.err = NilErr /\ encErr) =>
        w.status = StatusInternalServerError

\* C7: a Create / Update whose service call and response encoding succeeded
\* made exactly one service call, with the fields decoded from the body, and
\* is answered 200 with the JSON of the TODO the service returned, whose
\* Subject and Description are those of the request.
C7_SuccessEchoesService ==
    LET c == DecodeCreate(body).req
        u == DecodeUpdate(body).req
        want ==
            IF method = "POST"
            THEN SvcCall("CreateTODO", 0, c.Subject, c.Description, 0, 0, {})
            ELSE SvcCall("UpdateTODO", u.ID, u.Subject, u.Description, 0, 0, {})
    IN  (Served /\ Called /\ svcRet.err = NilErr /\ ~encErr) =>
            /\ svcCalls = <<want>>
            /\ w.status = StatusOK
            /\ w.contentType = "application/json"
            /\ ~res.isNil /\ res.err = NilErr /\ res.TODO = svcRet.todo
            /\ Len(w.body) = 1
            /\ w.body[1].kind = "json"
            /\ w.body[1].todo.id = svcRet.todo.ID
            /\ w.body[1].todo.subject = want.Subject
            /\ w.body[1].todo.description = want.Description
            /\ w.body[1].todo.created_at = RFC3339(svcRet.todo.CreatedAt)
            /\ w.body[1].todo.updated_at = RFC3339(svcRet.todo.UpdatedAt)
            /\ svcRet.todo \in todos

C7_Witness ==
    /\ Served
    /\ method = "PUT"
    /\ Called
    /\ svcRet.err = NilErr
    /\ ~encErr
    /\ w.status = StatusOK
    /\ body.description = Str("d")
    /\ svcRet.todo.UpdatedAt > svcRet.todo.CreatedAt

\* C8: Read calls the service's read operation with the request's PrevID and
\* Size and returns the TODOs the service returned; Delete calls the service's
\* delete operation with the request's IDs and, on success, returns an empty
\* response.
C8_ReadDeleteForward ==
    /\ pc = "read_returned" =>
         /\ svcCalls = <<SvcCall("ReadTODO", 0, "", "",
                                 apiReq.PrevID, apiReq.Size, {})>>
         /\ svcRet.err = NilErr => res.TODOs = svcRet.todos
    /\ pc = "delete_returned" =>
         /\ svcCalls = <<SvcCall("DeleteTODO", 0, "", "", 0, 0, apiReq.IDs)>>
         /\ svcRet.err = NilErr => (~res.isNil /\ res.err = NilErr)

\* C9: when the service's ReadTODO / DeleteTODO call returned an error, Read /
\* Delete returns that error to its caller.
C9_ReadDeleteErrors ==
    (pc \in {"read_returned", "delete_returned"} /\ svcRet.err # NilErr) =>
        res.err = svcRet.err

\* C10: a request makes at most one service call, CreateTODO for POST and
\* UpdateTODO for PUT, and only once its body has decoded and validated; a
\* served request has a response written; and every request that entered
\* ServeHTTP is eventually served.
C10_OneCall ==
    method # "" =>
        /\ Len(svcCalls) <= 1
        /\ Called =>
             /\ pc \in {"hc_encode", "hu_encode", "done"}
             /\ \/ /\ method = "POST"
                   /\ svcCalls[1].op = "CreateTODO"
                   /\ ~DecodeCreate(body).err
                   /\ DecodeCreate(body).req.Subject # ""
                \/ /\ method = "PUT"
                   /\ svcCalls[1].op = "UpdateTODO"
                   /\ ~DecodeUpdate(body).err
                   /\ DecodeUpdate(body).req.ID # 0
                   /\ DecodeUpdate(body).req.Subject # ""
        /\ (Called /\ svcRet.err # NilErr) => Served
        /\ Served => (w.wroteHeader /\ w.status # 0 /\ Len(w.body) >= 1)

C10_LinearFlow == []C10_OneCall /\ ((pc = "serve") ~> Served)

C10_Witness ==
    /\ Served
    /\ method = "PUT"
    /\ Len(svcCalls) = 1
    /\ svcRet.err = ErrLocked
    /\ w.status = StatusInternalServerError
    /\ w.wroteHeader

====
